---------------------------- MODULE Spec2Model ----------------------------
(*************************************************************************)
(* A model of the CRUD API of crud-api/: the bearer-token verifier       *)
(* verify_jwt with its process-wide JWKS cache (crud-api/main.py) and    *)
(* the persistence functions create_item / update_item / delete_item     *)
(* (crud-api/crud.py).                                                   *)
(*                                                                       *)
(* Time is counted in half hours, so that the one-hour TTL of the cache  *)
(* is two ticks and a cached key set can be seen fresh, on the edge of   *)
(* expiry and stale.                                                     *)
(*************************************************************************)
EXTENDS Integers, Sequences, FiniteSets, TLC

VARIABLES
    _jwks_cache,   \* main.py:72   {"data": ..., "expires_at": ...}
    now,           \* the wall clock that datetime.utcnow() reads
    last,          \* the last verify_jwt call: its input, what it ran, its outcome
    rows,          \* the committed rows of the items table
    next_id,       \* the next primary key the items table hands out
    crud_last,     \* the last crud.py call: its input, what it ran, its outcome
    threads,       \* the threadpool's workers inside get_jwks: position and locals
    origin         \* history: which GET each field of _jwks_cache was written from

vars == <<_jwks_cache, now, last, rows, next_id, crud_last, threads, origin>>

-----------------------------------------------------------------------------
(* Bounds of the model *)

MaxTime == 3

\* the items table holds at most MaxItems rows ever created
MaxItems == 2

\* the workers of the threadpool run at most MaxCalls calls of get_jwks
MaxCalls == 3

-----------------------------------------------------------------------------
(* Python values *)

\* An optional value is <<>> (None) or <<v>>.
None == <<>>
Some(v) == <<v>>

\* timedelta(hours=1), in half hours
OneHour == 2

AUTH0_DOMAIN == "tenant.auth0.com"
AUTH0_API_AUDIENCE == "https://api"
AUTH0_ALGORITHMS == {"RS256"}
Issuer == "https://" \o AUTH0_DOMAIN \o "/"

-----------------------------------------------------------------------------
(* The Authorization header.  A header value is a sequence of symbols: a  *)
(* symbol is a whitespace character, a letter, or a whole token text (a   *)
(* run of non-whitespace characters the model does not look into).        *)

\* the characters str.split() treats as separators (str.isspace)
Whitespace == {" ", "\t", "NBSP"}

\* str.lower() on the letters the model uses
LowerChar(c) ==
    CASE c = "A" -> "a" [] c = "B" -> "b" [] c = "C" -> "c" [] c = "E" -> "e"
      [] c = "I" -> "i" [] c = "R" -> "r" [] c = "S" -> "s" [] OTHER -> c

Lower(w) == [i \in 1..Len(w) |-> LowerChar(w[i])]

\* str.split() with no separator: the maximal runs of non-whitespace
\* characters, in order; leading and trailing whitespace yields no empty word.
RECURSIVE SplitFrom(_, _, _, _)
SplitFrom(s, i, cur, acc) ==
    IF i > Len(s)
    THEN IF cur = <<>> THEN acc ELSE Append(acc, cur)
    ELSE IF s[i] \in Whitespace
         THEN SplitFrom(s, i + 1, <<>>, IF cur = <<>> THEN acc ELSE Append(acc, cur))
         ELSE SplitFrom(s, i + 1, Append(cur, s[i]), acc)

Split(s) == SplitFrom(s, 1, <<>>, <<>>)

bearer == <<"b", "e", "a", "r", "e", "r">>

\* request.headers.get("Authorization"): None when the header is absent
NoHeader == [present |-> FALSE, value |-> <<>>]
Header(s) == [present |-> TRUE, value |-> s]

-----------------------------------------------------------------------------
(* Tokens.  A token text stands for one compact JWT; Jwt gives what the   *)
(* jose library reads out of it.                                          *)

\* the RSA key pairs that exist: a token is signed with the private half of one
KeyA == [n |-> "nA", e |-> "AQAB"]
KeyB == [n |-> "nB", e |-> "AQAB"]

FarFuture == MaxTime + 1

JwtOf(kid, alg, signer, aud, iss, exp) ==
    [decodable |-> TRUE, kid |-> kid, alg |-> alg, signer |-> signer,
     claims |-> [sub |-> "user1", aud |-> aud, iss |-> iss, exp |-> exp]]

GoodJwt == JwtOf(Some("k1"), "RS256", KeyA, AUTH0_API_AUDIENCE, Issuer, FarFuture)

Garbage == [GoodJwt EXCEPT !.decodable = FALSE]

Jwt(text) ==
    CASE text = <<"tok_good">>    -> GoodJwt
      [] text = <<"tok_k2">>      -> [GoodJwt EXCEPT !.kid = Some("k2"), !.signer = KeyB]
      [] text = <<"tok_expiring">> -> [GoodJwt EXCEPT !.claims.exp = 1]
      [] text = <<"tok_bad_aud">> -> [GoodJwt EXCEPT !.claims.aud = "https://other"]
      [] text = <<"tok_bad_iss">> -> [GoodJwt EXCEPT !.claims.iss = "https://evil.example/"]
      [] text = <<"tok_forged">>  -> [GoodJwt EXCEPT !.signer = KeyB]
      [] text = <<"tok_no_kid">>  -> [GoodJwt EXCEPT !.kid = None]
      [] OTHER -> Garbage

TokenTexts == {"tok_good", "tok_k2", "tok_expiring", "tok_bad_aud", "tok_bad_iss",
               "tok_forged", "tok_no_kid", "abc123"}


-----------------------------------------------------------------------------
(* What requests.get(...).json() can hand back: a JSON value.  Only what  *)
(* verify_jwt looks at is kept: the value's type, whether it is empty     *)
(* (Python truthiness), and its "keys" member.                            *)

\* members of a key entry that are absent, or present but not a string
Missing == "<missing>"
NotAString == "<not a string>"

required_fields == {"kid", "kty", "use", "n", "e"}

JwkOf(kid, key) ==
    [is_dict |-> TRUE, kid |-> kid, kty |-> "RSA", use |-> "sig", n |-> key.n, e |-> key.e]

K1 == JwkOf("k1", KeyA)           \* the key tok_good is signed with
K2 == JwkOf("k2", KeyB)
K1_other == JwkOf("k1", KeyB)     \* same kid, another key pair
K2_no_n == [K2 EXCEPT !.n = Missing]
K2_num_e == [K2 EXCEPT !.e = NotAString]
NotADict == [is_dict |-> FALSE, kid |-> Missing, kty |-> Missing, use |-> Missing,
             n |-> Missing, e |-> Missing]

\* type: "null" | "list" | "dict";  empty: len() = 0;
\* keys: None when the dict has no "keys" member, else Some of
\*       [is_list |-> ..., items |-> the entries]
Json(type, empty, keys) == [type |-> type, empty |-> empty, keys |-> keys]

JsonNull == Json("null", TRUE, None)
KeySet(items) == Json("dict", FALSE, Some([is_list |-> TRUE, items |-> items]))

Bodies ==
    { JsonNull,                                            \* null
      Json("list", FALSE, None),                           \* ["x"]
      Json("dict", TRUE, None),                            \* {}
      Json("dict", FALSE, None),                           \* {"error": "..."}
      Json("dict", FALSE, Some([is_list |-> FALSE, items |-> <<>>])),  \* {"keys": "x"}
      KeySet(<<>>),
      KeySet(<<K1>>),
      KeySet(<<K2, K1>>),
      KeySet(<<K1_other, K1>>),
      KeySet(<<K1, K2_no_n>>),
      KeySet(<<K2_num_e, K1>>),
      KeySet(<<NotADict>>) }

\* bool(x) of a JSON value: None and empty containers are falsy
Truthy(j) == j.type # "null" /\ ~j.empty

\* main.py:131-136 for one entry: every required field exists and is a string
FieldsOk(key) ==
    \A field \in required_fields : key[field] # Missing /\ key[field] # NotAString

\* the key set the spec's data model describes: a mapping whose "keys" is a
\* sequence of mappings with string-typed kid, kty, use, n, e
WellFormed(j) ==
    /\ j.type = "dict"
    /\ j.keys # None
    /\ j.keys[1].is_list
    /\ \A i \in 1..Len(j.keys[1].items) :
          j.keys[1].items[i].is_dict /\ FieldsOk(j.keys[1].items[i])

-----------------------------------------------------------------------------
(* The remote key endpoint: what one GET of /.well-known/jwks.json does.  *)

\* "ok": 2xx with a JSON body.  The others are the exceptions requests raises:
\* ConnectionError, Timeout (timeout=10), HTTPError (raise_for_status on a
\* non-2xx), and for a body that is no JSON either JSONDecodeError (a
\* RequestException since requests 2.27) or the plain ValueError of older
\* releases.
RequestExceptions == {"ConnectionError", "Timeout", "HTTPError", "JSONDecodeError"}

Response(kind, body) == [kind |-> kind, body |-> body]

Responses ==
    {Response("ok", b) : b \in Bodies}
        \cup {Response(k, JsonNull) : k \in RequestExceptions \cup {"ValueError"}}

\* no GET was made
NoResponse == Response("none", JsonNull)

-----------------------------------------------------------------------------
(* get_jwks, main.py:74-89 *)

CacheOf(data, expires_at) == [data |-> data, expires_at |-> expires_at]

\* CacheFresh with the comparison turned round
CacheFresh_Inverted(cache, t) ==
    /\ Truthy(cache.data)
    /\ cache.expires_at # None
    /\ t > cache.expires_at[1]

\* main.py:77
CacheFresh(cache, t) ==
    /\ Truthy(cache.data)
    /\ cache.expires_at # None
    /\ t < cache.expires_at[1]

\* Store without line 86: the data is replaced, the expiry is not
Store_KeepsExpiry(cache, jwks, t) == CacheOf(jwks, cache.expires_at)

\* main.py:85-86
Store(cache, jwks, t) == CacheOf(jwks, Some(t + OneHour))

HTTPException(status_code, detail) ==
    [raised |-> "HTTPException", status_code |-> status_code, detail |-> detail,
     payload |-> None]

\* an exception no handler of the module catches: the framework answers 500
Unhandled(exc) ==
    [raised |-> exc, status_code |-> 500, detail |-> "Internal Server Error",
     payload |-> None]

Returned(payload) ==
    [raised |-> "", status_code |-> 200, detail |-> "", payload |-> Some(payload)]

\* get_jwks that forgets the cached data when the GET fails
get_jwks_DropsCache(cache, t, resp) ==
    IF CacheFresh(cache, t)
    THEN [cache |-> cache, gets |-> 0, jwks |-> cache.data, exc |-> None]
    ELSE IF resp.kind = "ok"
    THEN [cache |-> Store(cache, resp.body, t), gets |-> 1,
          jwks |-> resp.body, exc |-> None]
    ELSE IF resp.kind \in RequestExceptions
    THEN [cache |-> CacheOf(JsonNull, None), gets |-> 1, jwks |-> JsonNull,
          exc |-> Some(HTTPException(503, "Unable to fetch JWKS: " \o resp.kind))]
    ELSE [cache |-> cache, gets |-> 1, jwks |-> JsonNull,
          exc |-> Some(Unhandled(resp.kind))]

\* The outcome of one call: the cache after it, the number of GETs sent to the
\* endpoint (gets), the value returned (jwks) or the exception raised (exc).
get_jwks(cache, t, resp) ==
    IF CacheFresh(cache, t)
    THEN [cache |-> cache, gets |-> 0, jwks |-> cache.data, exc |-> None]
    ELSE IF resp.kind = "ok"
    THEN [cache |-> Store(cache, resp.body, t), gets |-> 1,
          jwks |-> resp.body, exc |-> None]
    ELSE IF resp.kind \in RequestExceptions
    THEN [cache |-> cache, gets |-> 1, jwks |-> JsonNull,
          exc |-> Some(HTTPException(503, "Unable to fetch JWKS: " \o resp.kind))]
    ELSE [cache |-> cache, gets |-> 1, jwks |-> JsonNull,
          exc |-> Some(Unhandled(resp.kind))]

-----------------------------------------------------------------------------
(* The jose library, as verify_jwt uses it *)

\* jwt.get_unverified_header(token): the header segment of the token, read
\* without checking the signature; raises when it is no JWT header
get_unverified_header(token) == Jwt(token)

\* DecodeError of a call that passes no audience= to jwt.decode
DecodeError_NoAudience(token, rsa_key, t) ==
    LET jwt == Jwt(token) IN
    IF jwt.alg \notin AUTH0_ALGORITHMS THEN "The specified alg value is not allowed"
    ELSE IF rsa_key.kty # "RSA" THEN "Unable to find an algorithm for key"
    ELSE IF [n |-> rsa_key.n, e |-> rsa_key.e] # jwt.signer
         THEN "Signature verification failed."
    ELSE IF jwt.claims.exp < t THEN "Signature has expired."
    ELSE IF jwt.claims.iss # Issuer THEN "Invalid issuer"
    ELSE ""

\* jwt.decode(token, rsa_key, algorithms=, audience=, issuer=), main.py:153-159:
\* "" when the token verifies, else the message of the exception raised
DecodeError(token, rsa_key, t) ==
    LET jwt == Jwt(token) IN
    IF jwt.alg \notin AUTH0_ALGORITHMS THEN "The specified alg value is not allowed"
    ELSE IF rsa_key.kty # "RSA" THEN "Unable to find an algorithm for key"
    ELSE IF [n |-> rsa_key.n, e |-> rsa_key.e] # jwt.signer
         THEN "Signature verification failed."
    ELSE IF jwt.claims.exp < t THEN "Signature has expired."
    ELSE IF jwt.claims.aud # AUTH0_API_AUDIENCE THEN "Invalid audience"
    ELSE IF jwt.claims.iss # Issuer THEN "Invalid issuer"
    ELSE ""

-----------------------------------------------------------------------------
(* verify_jwt, main.py:91-163 *)

\* main.py:95   "if not auth": None and the empty string are falsy
HeaderMissing(auth) == ~auth.present \/ auth.value = <<>>

\* main.py:99   parts[0] is evaluated first: with no part it raises IndexError
HeaderIndexError(parts) == Len(parts) = 0

\* HeaderInvalid that only asks for a token after the scheme
HeaderInvalid_TooFew(parts) == Lower(parts[1]) # bearer \/ Len(parts) < 2

\* main.py:99
HeaderInvalid(parts) == Lower(parts[1]) # bearer \/ Len(parts) # 2

\* ScanKeys without the break of line 147: the loop runs on, and a later entry
\* with the token's kid replaces the one selected
RECURSIVE ScanKeys_NoBreak(_, _, _)
ScanKeys_NoBreak(items, i, kid) ==
    IF i > Len(items) THEN [exc |-> None, rsa_key |-> None]
    ELSE LET key == items[i]
             rest == ScanKeys_NoBreak(items, i + 1, kid)
         IN  IF ~key.is_dict
                  \/ \E f \in required_fields : key[f] = Missing \/ key[f] = NotAString
             THEN [exc |-> Some(HTTPException(401, "Invalid JWKS format")),
                   rsa_key |-> None]
             ELSE IF rest.exc # None \/ rest.rsa_key # None THEN rest
             ELSE IF Some(key.kid) = kid
             THEN [exc |-> None,
                   rsa_key |-> Some([kty |-> key.kty, kid |-> key.kid, use |-> key.use,
                                     n |-> key.n, e |-> key.e])]
             ELSE rest

\* main.py:126-147: the entries are visited in order; each visited entry is
\* validated, and the loop stops at the first entry whose kid is the token's.
\* Gives the HTTPException of the first invalid entry visited, else the entry
\* selected (rsa_key), else neither.
\* (The required fields are tried in the iteration order of a Python set, which
\* is not specified: an entry with several bad fields may report any of them.
\* The entries of Bodies have at most one.)
RECURSIVE ScanKeys(_, _, _)
ScanKeys(items, i, kid) ==
    IF i > Len(items) THEN [exc |-> None, rsa_key |-> None]
    ELSE LET key == items[i]
             bad == {f \in required_fields : key[f] = Missing \/ key[f] = NotAString}
             field == CHOOSE f \in bad : TRUE
         IN  IF ~key.is_dict
             THEN [exc |-> Some(HTTPException(401,
                       "Invalid JWKS format: key entry must be a dict")),
                   rsa_key |-> None]
             ELSE IF bad # {}
             THEN [exc |-> Some(HTTPException(401,
                       IF key[field] = Missing
                       THEN "Invalid JWKS format: missing required field '"
                                \o field \o "' in key"
                       ELSE "Invalid JWKS format: field '" \o field
                                \o "' must be a string")),
                   rsa_key |-> None]
             ELSE IF Some(key.kid) = kid
             THEN [exc |-> None,
                   rsa_key |-> Some([kty |-> key.kty, kid |-> key.kid, use |-> key.use,
                                     n |-> key.n, e |-> key.e])]
             ELSE ScanKeys(items, i + 1, kid)

\* main.py:112-150: the checks on the value get_jwks returned, then the scan
MatchKey(jwks, kid) ==
    IF jwks.type # "dict"
    THEN [exc |-> Some(HTTPException(401, "Invalid JWKS format: expected dict")),
          rsa_key |-> None]
    ELSE IF jwks.keys = None
    THEN [exc |-> Some(HTTPException(401, "Invalid JWKS format: missing 'keys' field")),
          rsa_key |-> None]
    ELSE IF ~jwks.keys[1].is_list
    THEN [exc |-> Some(HTTPException(401, "Invalid JWKS format: 'keys' must be a list")),
          rsa_key |-> None]
    ELSE LET scan == ScanKeys(jwks.keys[1].items, 1, kid) IN
         IF scan.exc = None /\ scan.rsa_key = None
         THEN [exc |-> Some(HTTPException(401, "Invalid token header")),
               rsa_key |-> None]
         ELSE scan

\* what a call leaves behind: the cache, the steps it ran (in order), the value
\* get_jwks returned, the key it selected, and its result
Outcome(cache, did, gets, jwks, rsa_key, result) ==
    [cache |-> cache, did |-> did, gets |-> gets, jwks |-> jwks,
     rsa_key |-> rsa_key, result |-> result]

\* the part of an outcome that the caller sees or that a log would show
Seen(out) ==
    [did |-> out.did, gets |-> out.gets, jwks |-> out.jwks,
     rsa_key |-> out.rsa_key, result |-> out.result]

\* main.py:152-163
Verify(token, g, rsa_key, t, did) ==
    LET cause == DecodeError(token, rsa_key, t) IN
    Outcome(g.cache, Append(did, "jwt.decode"), g.gets, g.jwks, Some(rsa_key),
            IF cause = ""
            THEN Returned(Jwt(token).claims)
            ELSE HTTPException(401, "Token verification failed: " \o cause))

\* main.py:104-150, from the call of get_jwks on
WithToken(token, cache, t, resp) ==
    LET g == get_jwks(cache, t, resp)
        d1 == <<"split", "get_jwks">>
        d2 == Append(d1, "get_unverified_header")
        d3 == Append(d2, "match")
        unverified_header == get_unverified_header(token)
        m == MatchKey(g.jwks, unverified_header.kid)
    IN  IF g.exc # None
        THEN Outcome(g.cache, d1, g.gets, g.jwks, None, g.exc[1])
        ELSE IF ~unverified_header.decodable
        THEN Outcome(g.cache, d2, g.gets, g.jwks, None,
                     HTTPException(401, "Malformed token: unable to read header"))
        ELSE IF m.exc # None
        THEN Outcome(g.cache, d3, g.gets, g.jwks, None, m.exc[1])
        ELSE Verify(token, g, m.rsa_key[1], t, d3)

verify_jwt(auth, cache, t, resp) ==
    IF HeaderMissing(auth)
    THEN Outcome(cache, <<>>, 0, JsonNull, None,
                 HTTPException(401, "Authorization header missing"))
    ELSE LET parts == Split(auth.value) IN
         IF HeaderIndexError(parts)
         THEN Outcome(cache, <<"split">>, 0, JsonNull, None, Unhandled("IndexError"))
         ELSE IF HeaderInvalid(parts)
         THEN Outcome(cache, <<"split">>, 0, JsonNull, None,
                      HTTPException(401, "Invalid Authorization header"))
         ELSE WithToken(parts[2], cache, t, resp)

-----------------------------------------------------------------------------
(* Requests *)

Bearer == <<"B", "e", "a", "r", "e", "r">>
Basic == <<"B", "a", "s", "i", "c">>

Headers ==
    { NoHeader,
      Header(<<>>),
      Header(<<" ">>),
      Header(<<"NBSP">>),
      Header(<<" ", "\t", " ">>),
      Header(Bearer),
      Header(Bearer \o <<" ">>),
      Header(Basic \o <<" ", "abc123">>),
      Header(Bearer \o <<"tok_good">>),
      Header(<<"tok_good", " ">> \o Bearer),
      Header(Bearer \o <<" ", "tok_good", " ", "tok_good">>),
      Header(bearer \o <<" ", "tok_good">>),
      Header(<<" ", "B", "E", "A", "R", "E", "R", "\t", " ", "tok_good", " ">>) }
        \cup {Header(Bearer \o <<" ", tok>>) : tok \in TokenTexts}

-----------------------------------------------------------------------------
(* The items table and the SQLAlchemy session, crud.py.  A row is         *)
(* [id, name, description]; rows is the committed table.  A session       *)
(* holds the changes made through it and not yet committed.               *)

Names == {"Laptop", "Laptop Pro"}
Descriptions == {"", "Gaming laptop"}

\* schemas.py:3-22  ItemCreate: a null description is coerced to ""
ItemCreate(name, description) ==
    [name |-> name, description |-> IF description = None THEN "" ELSE description[1]]

\* schemas.py:24-43  ItemUpdate: both fields optional, None means "leave alone"
ItemUpdate(name, description) == [name |-> name, description |-> description]

CreateInputs ==
    {ItemCreate(n, d) : n \in Names, d \in {None} \cup {Some(x) : x \in Descriptions}}

UpdateInputs ==
    {ItemUpdate(n, d) : n \in {None, Some("Laptop Pro")},
                        d \in {None, Some("Gaming laptop")}}

\* what the database does to the statements of one call: "ok", or the
\* COMMIT fails ("commit"), or the COMMIT succeeds and the SELECT of
\* db.refresh fails ("refresh")
Faults == {"ok", "commit", "refresh"}

NoChanges == [new |-> {}, dirty |-> {}, deleted |-> {}]

\* db.rollback(): the session drops its uncommitted changes
Rollback(session) == NoChanges

\* db.query(models.Item).filter(models.Item.id == item_id).first()
\* (id is the primary key: at most one row has it)
Found(table, item_id) == {r \in table : r.id = item_id}

CrudRaise(message) == [raised |-> "Exception", message |-> message, value |-> None]
CrudReturn(value) == [raised |-> "", message |-> "", value |-> value]

CrudOutcome(table, seq, session, did, result) ==
    [rows |-> table, next_id |-> seq, session |-> session, did |-> did,
     result |-> result]

\* the except branch without db.rollback()
Failed_NoRollback(table, seq, session, did, message) ==
    CrudOutcome(table, seq, session, did, CrudRaise(message))

\* crud.py:20-23, 50-53, 74-77: the except branch
Failed(table, seq, session, did, message) ==
    CrudOutcome(table, seq, Rollback(session), Append(did, "rollback"),
                CrudRaise(message))

\* crud.py:12-24
create_item(table, seq, item, fault) ==
    LET db_item == [id |-> seq, name |-> item.name, description |-> item.description]
        added == [NoChanges EXCEPT !.new = {db_item}]
    IN  IF fault = "commit"
        THEN Failed(table, seq, added, <<"add", "commit">>, "Failed to create item")
        ELSE IF fault = "refresh"
        THEN Failed(table \cup {db_item}, seq + 1, NoChanges,
                    <<"add", "commit", "refresh">>, "Failed to create item")
        ELSE CrudOutcome(table \cup {db_item}, seq + 1, NoChanges,
                         <<"add", "commit", "refresh">>, CrudReturn(Some(db_item)))

\* crud.py:26-54
update_item(table, seq, item_id, item, fault) ==
    LET found == Found(table, item_id)
        db_item == CHOOSE r \in found : TRUE
        changed == [db_item EXCEPT
                      !.name = IF item.name # None THEN item.name[1] ELSE @,
                      !.description =
                          IF item.description # None THEN item.description[1] ELSE @]
        dirty == [NoChanges EXCEPT !.dirty = {changed} \ {db_item}]
        written == (table \ {db_item}) \cup {changed}
    IN  IF found = {}
        THEN CrudOutcome(table, seq, NoChanges, <<"query">>, CrudReturn(None))
        ELSE IF fault = "commit"
        THEN Failed(table, seq, dirty, <<"query", "commit">>, "Failed to update item")
        ELSE IF fault = "refresh"
        THEN Failed(written, seq, NoChanges, <<"query", "commit", "refresh">>,
                    "Failed to update item")
        ELSE CrudOutcome(written, seq, NoChanges, <<"query", "commit", "refresh">>,
                         CrudReturn(Some(changed)))

\* crud.py:56-78   (delete_item never calls db.refresh)
delete_item(table, seq, item_id, fault) ==
    LET found == Found(table, item_id)
        db_item == CHOOSE r \in found : TRUE
        deleted == [NoChanges EXCEPT !.deleted = {db_item}]
    IN  IF found = {}
        THEN CrudOutcome(table, seq, NoChanges, <<"query">>, CrudReturn(None))
        ELSE IF fault = "commit"
        THEN Failed(table, seq, deleted, <<"query", "delete", "commit">>,
                    "Failed to delete item")
        ELSE CrudOutcome(table \ {db_item}, seq, NoChanges,
                         <<"query", "delete", "commit">>, CrudReturn(Some(db_item)))

\* the part of a call kept for the claims: what it was, and what came of it
CrudCall(op, item_id, item, fault, out) ==
    [op |-> op, item_id |-> item_id, item |-> item, fault |-> fault,
     session |-> out.session, did |-> out.did, result |-> out.result]

NoItem == ItemUpdate(None, None)

NoCrudCall ==
    CrudCall("", 0, NoItem, "ok",
             CrudOutcome({}, 1, NoChanges, <<>>, CrudReturn(None)))

\* whether a call ran the step
Ran(call, step) == \E i \in 1..Len(call.out.did) : call.out.did[i] = step

\* what get_jwks found in the cache: nothing, a value still fresh, or a stale one
CacheState(cache, t) ==
    IF cache.data = JsonNull THEN "empty"
    ELSE IF CacheFresh(cache, t) THEN "fresh" ELSE "stale"

\* the record of one call: its input, and what the caller or a log sees of it
Call(auth, resp, cache, t, out) ==
    [header |-> auth, response |-> resp, called |-> TRUE,
     cache_was |-> IF out.did = <<>> \/ out.did = <<"split">>
                   THEN "unread" ELSE CacheState(cache, t),
     out |-> Seen(out)]

NoCall ==
    [header |-> NoHeader, response |-> NoResponse, called |-> FALSE,
     cache_was |-> "unread",
     out |-> Seen(Outcome(CacheOf(JsonNull, None), <<>>, 0, JsonNull, None,
                          Returned([sub |-> "", aud |-> "", iss |-> "", exp |-> 0])))]

\* a GET that answered 200, named by the number of the call that sent it, with
\* the now that call read at main.py:76; NoFetch is "never written"
Fetch(n, t) == [n |-> n, now |-> t]
NoFetch == Fetch(0, 0)

\* what a call of get_jwks gave its caller: the cached data ("hit", main.py:78)
\* with the origins of the data returned and of the expires_at it was compared
\* with, the fetched body ("fetched", main.py:87), or HTTP 503 (main.py:89)
Return(kind, data, data_from, expires_at_from) ==
    [kind |-> kind, data |-> data, data_from |-> data_from,
     expires_at_from |-> expires_at_from]
NoReturn == Return("none", JsonNull, NoFetch, NoFetch)

\* the verify_jwt dependencies of concurrent requests run on the workers of
\* the threadpool
Threads == {"w1", "w2"}

\* a worker: where it is in get_jwks, its locals now and jwks, the name of the
\* GET of this call, the origin of the expires_at it read, and what its last
\* call returned
Worker(pc, t, jwks, fetch, expires_at_from, ret) ==
    [pc |-> pc, now |-> t, jwks |-> jwks, fetch |-> fetch,
     expires_at_from |-> expires_at_from, ret |-> ret]
Idle(ret) == Worker("idle", 0, JsonNull, NoFetch, NoFetch, ret)

Init ==
    /\ _jwks_cache = CacheOf(JsonNull, None)
    /\ now = 0
    /\ last = NoCall
    /\ rows = {}
    /\ next_id = 1
    /\ crud_last = NoCrudCall
    /\ threads = [t \in Threads |-> Idle(NoReturn)]
    /\ origin = [calls |-> 0, data |-> NoFetch, expires_at |-> NoFetch]

\* whether verify_jwt, run on this header now, asks the key endpoint
AsksEndpoint(auth) == verify_jwt(auth, _jwks_cache, now, NoResponse).gets > 0

\* verify_jwt runs on the request's Authorization header; resp is the key
\* endpoint's answer to the GET, if one is sent
Serve(auth, resp) ==
    LET out == verify_jwt(auth, _jwks_cache, now, resp) IN
    /\ _jwks_cache' = out.cache
    /\ last' = Call(auth, resp, _jwks_cache, now, out)
    /\ UNCHANGED <<now, rows, next_id, crud_last, threads, origin>>

\* a request to a protected route that is answered without asking the endpoint
Request(auth) ==
    /\ ~AsksEndpoint(auth)
    /\ Serve(auth, NoResponse)

\* a request to a protected route during which get_jwks asks the endpoint
RequestFetching(auth) ==
    /\ AsksEndpoint(auth)
    /\ \E resp \in Responses : Serve(auth, resp)

\* the wall clock advances
Tick ==
    /\ now < MaxTime
    /\ now' = now + 1
    /\ UNCHANGED <<_jwks_cache, last, rows, next_id, crud_last, threads, origin>>

Next ==
    \/ \E auth \in Headers : Request(auth)
    \/ \E auth \in Headers : RequestFetching(auth)
    \/ Tick

Spec == Init /\ [][Next]_vars

-----------------------------------------------------------------------------
(* The persistence layer on its own: the calls the routes make into       *)
(* crud.py once verify_jwt has returned.                                  *)

CreateItem(item, fault) ==
    LET out == create_item(rows, next_id, item, fault) IN
    /\ next_id <= MaxItems
    /\ rows' = out.rows
    /\ next_id' = out.next_id
    /\ crud_last' = CrudCall("create_item", 0,
                             ItemUpdate(Some(item.name), Some(item.description)),
                             fault, out)
    /\ UNCHANGED <<_jwks_cache, now, last, threads, origin>>

UpdateItem(item_id, item, fault) ==
    LET out == update_item(rows, next_id, item_id, item, fault) IN
    /\ rows' = out.rows
    /\ next_id' = out.next_id
    /\ crud_last' = CrudCall("update_item", item_id, item, fault, out)
    /\ UNCHANGED <<_jwks_cache, now, last, threads, origin>>

DeleteItem(item_id, fault) ==
    LET out == delete_item(rows, next_id, item_id, fault) IN
    /\ rows' = out.rows
    /\ next_id' = out.next_id
    /\ crud_last' = CrudCall("delete_item", item_id, NoItem, fault, out)
    /\ UNCHANGED <<_jwks_cache, now, last, threads, origin>>

\* the ids a request may name: those ever handed out, and one never handed out
ItemIds == 1..(MaxItems + 1)

NextCrud ==
    \/ \E item \in CreateInputs, fault \in Faults : CreateItem(item, fault)
    \/ \E item_id \in ItemIds, item \in UpdateInputs, fault \in Faults :
          UpdateItem(item_id, item, fault)
    \/ \E item_id \in ItemIds, fault \in Faults \ {"refresh"} :
          DeleteItem(item_id, fault)

SpecCrud == Init /\ [][NextCrud]_vars

-----------------------------------------------------------------------------
(* get_jwks run by several workers at once.  A worker may be suspended    *)
(* between any two reads or writes of the shared dict _jwks_cache, so     *)
(* each subscript of main.py:77-78 and each assignment of main.py:85-86   *)
(* is a step of its own.                                                  *)

\* what the key endpoint answers while its keys are rotated
RotatingResponses ==
    {Response("ok", KeySet(<<K1>>)), Response("ok", KeySet(<<K2, K1>>)),
     Response("Timeout", JsonNull)}

Running == {t \in Threads : threads[t].pc # "idle"}

At(t, pc) == threads[t].pc = pc

Goto(t, w) ==
    /\ threads' = [threads EXCEPT ![t] = w]

\* main.py:76  now = datetime.utcnow()
Enter(t) ==
    /\ At(t, "idle")
    /\ origin.calls < MaxCalls
    /\ Goto(t, Worker("77_data", now, JsonNull, Fetch(origin.calls + 1, now),
                       NoFetch, NoReturn))
    /\ origin' = [origin EXCEPT !.calls = @ + 1]
    /\ UNCHANGED <<_jwks_cache, now, last, rows, next_id, crud_last>>

\* main.py:77  _jwks_cache["data"] and ...
ReadData(t) ==
    /\ At(t, "77_data")
    /\ Goto(t, [threads[t] EXCEPT
                  !.pc = IF Truthy(_jwks_cache.data) THEN "77_expires_at" ELSE "82"])
    /\ UNCHANGED <<_jwks_cache, now, last, rows, next_id, crud_last, origin>>

\* main.py:77  ... and _jwks_cache["expires_at"] and ...
ReadExpiresAt(t) ==
    /\ At(t, "77_expires_at")
    /\ Goto(t, [threads[t] EXCEPT
                  !.pc = IF _jwks_cache.expires_at # None THEN "77_compare" ELSE "82"])
    /\ UNCHANGED <<_jwks_cache, now, last, rows, next_id, crud_last, origin>>

\* main.py:77  ... and now < _jwks_cache["expires_at"]
CompareExpiresAt(t) ==
    /\ At(t, "77_compare")
    /\ Goto(t, IF threads[t].now < _jwks_cache.expires_at[1]
               THEN [threads[t] EXCEPT !.pc = "78",
                                       !.expires_at_from = origin.expires_at]
               ELSE [threads[t] EXCEPT !.pc = "82"])
    /\ UNCHANGED <<_jwks_cache, now, last, rows, next_id, crud_last, origin>>

\* main.py:78  return _jwks_cache["data"]
ReturnCached(t) ==
    /\ At(t, "78")
    /\ Goto(t, Idle(Return("hit", _jwks_cache.data, origin.data,
                           threads[t].expires_at_from)))
    /\ UNCHANGED <<_jwks_cache, now, last, rows, next_id, crud_last, origin>>

\* main.py:82-84  the GET, raise_for_status and response.json(); on a failure
\* main.py:88-89
Get(t, resp) ==
    /\ At(t, "82")
    /\ Goto(t, IF resp.kind = "ok"
               THEN [threads[t] EXCEPT !.pc = "85", !.jwks = resp.body]
               ELSE Idle(Return("503", JsonNull, NoFetch, NoFetch)))
    /\ UNCHANGED <<_jwks_cache, now, last, rows, next_id, crud_last, origin>>

\* main.py:85  _jwks_cache["data"] = jwks
WriteData(t) ==
    /\ At(t, "85")
    /\ _jwks_cache' = [_jwks_cache EXCEPT !.data = threads[t].jwks]
    /\ origin' = [origin EXCEPT !.data = threads[t].fetch]
    /\ Goto(t, [threads[t] EXCEPT !.pc = "86"])
    /\ UNCHANGED <<now, last, rows, next_id, crud_last>>

\* main.py:86-87  _jwks_cache["expires_at"] = now + timedelta(hours=1); return jwks
WriteExpiresAt(t) ==
    /\ At(t, "86")
    /\ _jwks_cache' = [_jwks_cache EXCEPT !.expires_at = Some(threads[t].now + OneHour)]
    /\ origin' = [origin EXCEPT !.expires_at = threads[t].fetch]
    /\ Goto(t, Idle(Return("fetched", threads[t].jwks, threads[t].fetch,
                           threads[t].fetch)))
    /\ UNCHANGED <<now, last, rows, next_id, crud_last>>

NextConcurrent ==
    \/ \E t \in Threads : Enter(t)
    \/ \E t \in Threads : ReadData(t)
    \/ \E t \in Threads : ReadExpiresAt(t)
    \/ \E t \in Threads : CompareExpiresAt(t)
    \/ \E t \in Threads : ReturnCached(t)
    \/ \E t \in Threads, resp \in RotatingResponses : Get(t, resp)
    \/ \E t \in Threads : WriteData(t)
    \/ \E t \in Threads : WriteExpiresAt(t)
    \/ Tick

SpecConcurrent == Init /\ [][NextConcurrent]_vars

-----------------------------------------------------------------------------
(* Properties of the key-set cache and the verifier.                      *)
(*                                                                        *)
(* A property that relates a call to the state it started in is an action *)
(* property: in a step of Spec that leaves the clock alone (now' = now)   *)
(* the unprimed variables are the state the request found, and last' is   *)
(* the record of that request.                                            *)
(* Every request in every reachable cache and clock state is such a step: *)
(* a request with no header, and one with an empty header, leave the      *)
(* cache alone, so each cache and clock state is reached with two         *)
(* different records in last, and no request is a stuttering step from    *)
(* both.                                                                  *)

\* the token of a request whose header has the bearer shape
Token(call) == Split(call.header.value)[2]

\* C1: when the cache holds a well-formed key set and now < expires_at, get_jwks
\* returns exactly the cached data and sends no GET, and leaves the cache as it
\* is: so every call inside one TTL window returns the same data, and the only
\* GET of the window is the one that opened it.
C1_CacheHit ==
    [][ ( /\ now' = now
          /\ Ran(last', "get_jwks")
          /\ WellFormed(_jwks_cache.data)
          /\ _jwks_cache.expires_at # None
          /\ now < _jwks_cache.expires_at[1] )
        => ( /\ last'.out.jwks = _jwks_cache.data
             /\ last'.out.gets = 0
             /\ last'.response = NoResponse
             /\ _jwks_cache' = _jwks_cache ) ]_vars

\* a call served from a fresh, well-formed cached key set
C1_Witness ==
    /\ last.called
    /\ last.cache_was = "fresh"
    /\ WellFormed(last.out.jwks)
    /\ last.out.gets = 0

\* C2: when the cache is empty or now >= expires_at, one get_jwks call sends
\* exactly one GET (no retry), and when that GET brings a key set the cache holds
\* it with expires_at = now + 1 hour, so that a call at any time inside that hour
\* is a cache hit, and one at its end is not.
C2_RefreshOnExpiry ==
    [][ ( /\ now' = now
          /\ Ran(last', "get_jwks")
          /\ \/ _jwks_cache.data = JsonNull
             \/ _jwks_cache.expires_at # None /\ now >= _jwks_cache.expires_at[1] )
        => ( /\ last'.out.gets = 1
             /\ last'.response \in Responses
             /\ (last'.response.kind = "ok" /\ WellFormed(last'.response.body))
                  => /\ _jwks_cache' = CacheOf(last'.response.body, Some(now + OneHour))
                     /\ last'.out.jwks = last'.response.body
                     /\ \A t \in now..(now + OneHour - 1) :
                           get_jwks(_jwks_cache', t, NoResponse).gets = 0
                     /\ get_jwks(_jwks_cache', now + OneHour, NoResponse).gets = 1 ) ]_vars

\* a stale cache has just been refreshed with a key set
C2_Witness ==
    /\ last.called
    /\ last.cache_was = "stale"
    /\ last.out.gets = 1
    /\ last.response.kind = "ok"
    /\ WellFormed(last.response.body)
    /\ _jwks_cache = CacheOf(last.response.body, Some(now + OneHour))

\* C3: a present Authorization header made of whitespace only (it splits into
\* zero tokens) ends in the malformed-header failure, 401 "Invalid Authorization
\* header", and never in an unhandled fault.
C3_WhitespaceOnlyHeader ==
    ( /\ last.called
      /\ last.header.present
      /\ last.header.value # <<>>
      /\ Len(Split(last.header.value)) = 0 )
    => last.out.result = HTTPException(401, "Invalid Authorization header")

\* the call neither asked for the key set nor read the token
NoKeyWork(call) ==
    /\ ~Ran(call, "get_jwks")
    /\ ~Ran(call, "get_unverified_header")
    /\ ~Ran(call, "jwt.decode")
    /\ call.out.gets = 0
    /\ call.response = NoResponse

\* the header has at least one token and is not "<bearer, in any case> <token>"
BadShape(auth) ==
    LET parts == Split(auth.value) IN
    /\ auth.present
    /\ Len(parts) >= 1
    /\ ~(Len(parts) = 2 /\ Lower(parts[1]) = bearer)

\* C4: verify_jwt fails with "Authorization header missing" (401) when the header
\* is absent, and with "Invalid Authorization header" (401) for every present
\* header with at least one token that is not exactly two tokens of which the
\* first is "bearer" in any case; in both cases no key set is fetched and no
\* token is decoded.
C4_HeaderPresenceAndShape ==
    last.called =>
        /\ ~last.header.present
             => /\ last.out.result = HTTPException(401, "Authorization header missing")
                /\ NoKeyWork(last)
        /\ BadShape(last.header)
             => /\ last.out.result = HTTPException(401, "Invalid Authorization header")
                /\ NoKeyWork(last)

\* a header of three tokens, the first of them Bearer, was refused
C4_Witness ==
    /\ last.called
    /\ BadShape(last.header)
    /\ Len(Split(last.header.value)) = 3
    /\ Split(last.header.value)[1] = Bearer
    /\ last.out.result.status_code = 401

InvalidJwksDetails ==
    { "Invalid JWKS format: expected dict",
      "Invalid JWKS format: missing 'keys' field",
      "Invalid JWKS format: 'keys' must be a list",
      "Invalid JWKS format: key entry must be a dict" }
      \cup {"Invalid JWKS format: missing required field '" \o f \o "' in key" :
               f \in required_fields}
      \cup {"Invalid JWKS format: field '" \o f \o "' must be a string" :
               f \in required_fields}

\* C5: when the body just fetched is not a well-formed key set (not a mapping, no
\* "keys", "keys" not a sequence, or any entry at any position not a mapping with
\* string-typed kid, kty, use, n, e), verification of a request whose token header
\* decodes fails with the malformed-key-set error, which is not the 503 of a
\* failed fetch, and returns no payload.
C5_StrictKeySetSchema ==
    ( /\ last.called
      /\ last.response.kind = "ok"
      /\ ~WellFormed(last.response.body)
      /\ Jwt(Token(last)).decodable )
    => ( /\ last.out.result.raised = "HTTPException"
         /\ last.out.result.detail \in InvalidJwksDetails
         /\ last.out.result.status_code # 503
         /\ last.out.result.payload = None )

\* C6: in every reachable state the cached data is absent or a well-formed key
\* set: a malformed response is never stored.
C6_CacheHoldsValidatedOnly ==
    _jwks_cache.data = JsonNull \/ WellFormed(_jwks_cache.data)

\* C7: when get_jwks has to fetch and the GET fails by transport error, timeout
\* or non-2xx status, verify_jwt ends in HTTP 503 with no payload after that one
\* GET, the cache's data and expires_at are what they were, and a call made next
\* would fetch again.
C7_FetchFailure ==
    [][ ( /\ now' = now
          /\ last'.called
          /\ last'.response.kind \in {"ConnectionError", "Timeout", "HTTPError"} )
        => ( /\ last'.out.result.raised = "HTTPException"
             /\ last'.out.result.status_code = 503
             /\ last'.out.result.payload = None
             /\ last'.out.gets = 1
             /\ _jwks_cache' = _jwks_cache
             /\ get_jwks(_jwks_cache', now, last'.response).gets = 1 ) ]_vars

\* a refresh of a stale cache timed out, and the stale data is still cached
C7_Witness ==
    /\ last.called
    /\ last.response.kind = "Timeout"
    /\ last.cache_was = "stale"
    /\ last.out.result.status_code = 503
    /\ _jwks_cache.data # JsonNull

\* the positions of the key set's entries whose kid is the token header's kid
Hits(call) ==
    LET items == call.out.jwks.keys[1].items IN
    {i \in 1..Len(items) : Some(items[i].kid) = Jwt(Token(call)).kid}

\* C8: given a well-formed key set and a token whose header decodes, verify_jwt
\* selects the first entry, in key-set order, whose kid is the token header's kid
\* and verifies with that entry's kty, kid, use, n, e; when no entry has that kid
\* (the token has no kid, or the key set is empty) it fails with 401 "Invalid token
\* header" and jwt.decode is not called.
C8_KeyMatch ==
    ( /\ last.called
      /\ Ran(last, "get_unverified_header")
      /\ Jwt(Token(last)).decodable
      /\ WellFormed(last.out.jwks) )
    => IF Hits(last) = {}
       THEN /\ last.out.result = HTTPException(401, "Invalid token header")
            /\ last.out.rsa_key = None
            /\ ~Ran(last, "jwt.decode")
       ELSE LET first == CHOOSE i \in Hits(last) : \A j \in Hits(last) : i <= j
                key == last.out.jwks.keys[1].items[first]
            IN  /\ last.out.rsa_key = Some([kty |-> key.kty, kid |-> key.kid,
                                            use |-> key.use, n |-> key.n, e |-> key.e])
                /\ Ran(last, "jwt.decode")
                /\ last.out.result.payload # None
                     => Jwt(Token(last)).signer = [n |-> key.n, e |-> key.e]

\* two entries carry the token's kid, and the first of them was used
C8_Witness ==
    /\ last.called
    /\ Ran(last, "jwt.decode")
    /\ WellFormed(last.out.jwks)
    /\ Cardinality(Hits(last)) = 2
    /\ last.out.rsa_key[1].n = last.out.jwks.keys[1].items[1].n
    /\ last.out.rsa_key[1].n # last.out.jwks.keys[1].items[2].n

\* what the token must be for the selected key and the configuration, at time t
CryptoOk(jwt, key, t) ==
    /\ jwt.alg = "RS256"
    /\ jwt.signer = [n |-> key.n, e |-> key.e]
    /\ jwt.claims.aud = AUTH0_API_AUDIENCE
    /\ jwt.claims.iss = "https://tenant.auth0.com/"
    /\ jwt.claims.exp >= t

VerificationFailedDetails ==
    {"Token verification failed: " \o cause :
        cause \in {"The specified alg value is not allowed",
                   "Unable to find an algorithm for key",
                   "Signature verification failed.", "Signature has expired.",
                   "Invalid audience", "Invalid issuer"}}

-----------------------------------------------------------------------------
(* Properties of the persistence layer, under SpecCrud: rows is the table *)
(* the call found, rows' the table it left, crud_last' its record.        *)

Attempted(call, step) == \E i \in 1..Len(call.did) : call.did[i] = step

\* C10: in create_item, update_item and delete_item a failing commit is caught,
\* the session is rolled back, the stored items are those of before the call and
\* a generic exception is raised; update_item and delete_item on an id that does
\* not exist return None without committing or changing any item; so "absent"
\* (a returned None) and "failed" (a raised exception) are never the same signal.
C10_PersistenceErrors ==
    [][ LET c == crud_last' IN
        /\ (Attempted(c, "commit") /\ c.fault = "commit")
             => /\ rows' = rows
                /\ Attempted(c, "rollback")
                /\ c.session = NoChanges
                /\ c.result.raised = "Exception"
                /\ c.result.value = None
        /\ (c.op \in {"update_item", "delete_item"} /\ Found(rows, c.item_id) = {})
             => /\ c.result = CrudReturn(None)
                /\ ~Attempted(c, "commit")
                /\ rows' = rows
        /\ c.result.raised = "Exception" => c.result # CrudReturn(None) ]_vars

\* an update of a stored item failed at commit and raised
C10_Witness ==
    /\ crud_last.op = "update_item"
    /\ crud_last.fault = "commit"
    /\ Attempted(crud_last, "rollback")
    /\ crud_last.result.raised = "Exception"
    /\ \E r \in rows : r.id = crud_last.item_id

-----------------------------------------------------------------------------
(* The order of the stages of verify_jwt.                                 *)

\* the header is absent or has at least one token (a present header of
\* whitespace only is the subject of C3)
HasTokensOrAbsent(auth) ==
    ~auth.present \/ auth.value = <<>> \/ Len(Split(auth.value)) >= 1

\* C11: the failure verify_jwt reports is that of the earliest failing stage in
\* the order header presence, header shape, key-set retrieval and structural
\* validation, unverified token-header decode, key match, cryptographic
\* verification, and no later stage runs after a stage fails: so when the key set
\* obtained is malformed the call ends in the malformed-key-set error, whether
\* or not the token header is decodable.
C11_StageOrder ==
    (last.called /\ HasTokensOrAbsent(last.header))
    => LET r == last.out.result IN
       IF ~last.header.present \/ last.header.value = <<>>
       THEN /\ r = HTTPException(401, "Authorization header missing")
            /\ NoKeyWork(last)
       ELSE IF BadShape(last.header)
       THEN /\ r = HTTPException(401, "Invalid Authorization header")
            /\ NoKeyWork(last)
       ELSE IF last.response.kind \notin {"ok", "none"}
       THEN /\ r.status_code \in {500, 503}
            /\ r.payload = None
            /\ ~Ran(last, "get_unverified_header")
            /\ ~Ran(last, "jwt.decode")
       ELSE IF ~WellFormed(last.out.jwks)
       THEN /\ r.raised = "HTTPException"
            /\ r.detail \in InvalidJwksDetails
            /\ ~Ran(last, "jwt.decode")
       ELSE IF ~Jwt(Token(last)).decodable
       THEN /\ r = HTTPException(401, "Malformed token: unable to read header")
            /\ ~Ran(last, "jwt.decode")
       ELSE IF Hits(last) = {}
       THEN /\ r = HTTPException(401, "Invalid token header")
            /\ ~Ran(last, "jwt.decode")
       ELSE /\ Ran(last, "jwt.decode")
            /\ r.payload # None \/ r.detail \in VerificationFailedDetails

-----------------------------------------------------------------------------
(* Properties of concurrent calls of get_jwks, under SpecConcurrent.      *)

\* no worker is between the two assignments of main.py:85-86
NoWriteInProgress == \A t \in Threads : ~At(t, "86")

\* C12: under every interleaving of concurrent get_jwks calls, every call that
\* returns a key set returns the complete body of one GET; a call served from the
\* cache has compared its now with the expires_at of the refresh that wrote the
\* data it returns (or of one whose call read the same now); whenever no write is
\* in progress the cached expires_at is one hour after the now of the call that
\* fetched the cached data; and cached data is never servable beyond one hour
\* after the now of the call that fetched it.
C12_AtomicReplace ==
    /\ \A t \in Threads :
          LET ret == threads[t].ret IN
          /\ ret.kind \in {"hit", "fetched"}
               => Response("ok", ret.data) \in RotatingResponses
          /\ ret.kind = "hit" => ret.data_from.now = ret.expires_at_from.now
    /\ (NoWriteInProgress /\ origin.data # NoFetch)
          => _jwks_cache.expires_at = Some(origin.data.now + OneHour)
    /\ (Truthy(_jwks_cache.data) /\ _jwks_cache.expires_at # None)
          => _jwks_cache.expires_at[1] <= origin.data.now + OneHour

=============================================================================
